---------------------------- MODULE Spec2Model ----------------------------
(***************************************************************************)
(* Model of the multilingual item-name engine of warframe-patch-manager:   *)
(* WFItemsLoader (src/src/core/wf_items_loader.py) and SearchEngine        *)
(* (src/src/core/search_engine.py).                                        *)
(*                                                                         *)
(* A string is a sequence of code points.  A Python dict is a sequence of  *)
(* <<key, value>> pairs with distinct keys, in insertion order.            *)
(* i18n_type is the Python type of self.i18n_data: json.load stores        *)
(* whatever value the document holds, a dict or (for a top-level JSON      *)
(* array) a list of its elements.                                          *)
(* Code points used below: 32 ' ', 49 '1', 50 '2', 65 'A', 66 'B',         *)
(* 97 'a', 98 'b', 120 'x', 196 'A-umlaut', 228 'a-umlaut'.                *)
(***************************************************************************)
EXTENDS Integers, Sequences, FiniteSets

VARIABLES csv_file, i18n_file, items, wf_items_loader,
          english_names, i18n_data, i18n_type, loaded, last,
          window, api, patches

vars == <<csv_file, i18n_file, items, wf_items_loader,
          english_names, i18n_data, i18n_type, loaded, last,
          window, api, patches>>

(***************************************************************************)
(* Bounds of the model.                                                    *)
(***************************************************************************)
MaxRows == 2
MaxI18n == 2
MaxLimit == 2
MaxMinChars == 3

(***************************************************************************)
(* Strings.                                                                *)
(***************************************************************************)
\* str.lower() on one code point (ASCII and Latin-1 capitals).
LowerChar(c) ==
    IF (c >= 65 /\ c <= 90) \/ (c >= 192 /\ c <= 222 /\ c # 215) THEN c + 32 ELSE c

\* str.lower()
Lower(s) == [i \in 1..Len(s) |-> LowerChar(s[i])]

\* Python's `needle in hay` on strings.
Contains(needle, hay) ==
    \E i \in 0..(Len(hay) - Len(needle)) :
        SubSeq(hay, i + 1, i + Len(needle)) = needle

\* str.startswith
StartsWith(s, prefix) ==
    Len(prefix) <= Len(s) /\ SubSeq(s, 1, Len(prefix)) = prefix

IsSpace(c) == c \in {9, 10, 11, 12, 13, 32}

RECURSIVE LStrip(_)
LStrip(s) == IF s # <<>> /\ IsSpace(Head(s)) THEN LStrip(Tail(s)) ELSE s

RECURSIVE RStrip(_)
RStrip(s) ==
    IF s # <<>> /\ IsSpace(s[Len(s)]) THEN RStrip(SubSeq(s, 1, Len(s) - 1)) ELSE s

\* str.strip()
Strip(s) == RStrip(LStrip(s))

\* all(ord(c) < 128 for c in query)
IsAsciiQuery(query) == \A i \in 1..Len(query) : query[i] < 128

\* seq[:n] for n >= 0
Take(seq, n) == SubSeq(seq, 1, IF n < Len(seq) THEN n ELSE Len(seq))

(***************************************************************************)
(* Python dicts as insertion-ordered sequences of <<key, value>>.          *)
(***************************************************************************)
DictHas(d, k) == \E i \in 1..Len(d) : d[i][1] = k

DictGet(d, k) == d[CHOOSE i \in 1..Len(d) : d[i][1] = k][2]

\* d[k] = v : an existing key keeps its position, a new key goes last.
DictSet(d, k, v) ==
    IF DictHas(d, k)
    THEN [i \in 1..Len(d) |-> IF d[i][1] = k THEN <<k, v>> ELSE d[i]]
    ELSE Append(d, <<k, v>>)

DictKeys(d) == {d[i][1] : i \in 1..Len(d)}

\* Position of key k in the iteration order of d (0 when absent).
DictPos(d, k) == IF DictHas(d, k) THEN CHOOSE i \in 1..Len(d) : d[i][1] = k ELSE 0

(***************************************************************************)
(* The two source files.                                                   *)
(***************************************************************************)
HeaderRow == << <<105, 100>>, <<110, 97, 109, 101>> >>

\* Rows of the name-table file as csv.reader yields them.
RowSamples ==
    { << <<97, 98, 32>>, <<66, 97>> >>,             \* "ab ", "Ba"
      << <<120, 49>>, <<98, 65, 98>> >>,            \* "x1", "bAb"
      << <<120, 49>>, <<32, 65, 98>> >>,            \* "x1", " Ab"
      << <<120, 50>>, <<228, 98, 65, 98>> >> }      \* "x2", "a-umlaut bAb"

RECURSIVE SeqsUpTo(_, _)
SeqsUpTo(S, n) ==
    IF n = 0 THEN {<<>>}
    ELSE LET shorter == SeqsUpTo(S, n - 1)
         IN  shorter \cup {Append(s, x) : s \in shorter, x \in S}

CsvFiles ==
    {[exists |-> FALSE, rows |-> <<>>], [exists |-> TRUE, rows |-> <<>>]}
    \cup {[exists |-> TRUE, rows |-> <<HeaderRow>> \o data] :
              data \in SeqsUpTo(RowSamples, MaxRows)}

\* Entries of the translation document: identifier -> {language -> record}.
I18nSamples ==
    { << <<120, 49>>,                                   \* "x1"
         << <<"de", << <<"name", <<228, 98, 65, 98>> >> >> >>,
            <<"zh", << <<"name", <<65, 98>> >> >> >> >> >>,
      << <<120, 50>>,                                   \* "x2"
         << <<"de", << <<"name", <<97, 66, 228, 98>> >> >> >> >> >>,
      << <<97, 98>>,                                    \* "ab"
         << <<"de", << <<"description", <<66, 97>> >> >> >>,
            <<"zh", << <<"name", <<>> >> >> >> >> >> }

I18nDocs ==
    {d \in SeqsUpTo(I18nSamples, MaxI18n) :
        \A i, j \in 1..Len(d) : d[i][1] = d[j][1] => i = j}

I18nFiles ==
    {[kind |-> "missing", doc |-> <<>>], [kind |-> "invalid", doc |-> <<>>]}
    \cup {[kind |-> "mapping", doc |-> d] : d \in I18nDocs}

\* Translation files whose document parses as JSON with an array at the top
\* level; `doc` is the list json.load returns.
ArrayFiles ==
    {[kind |-> "array", doc |-> <<>>],
     [kind |-> "array", doc |-> << <<120, 49>> >>]}       \* ["x1"]

\* Well-formed, absent and array-shaped translation files side by side.
ShapeFiles ==
    ArrayFiles
    \cup {[kind |-> "missing", doc |-> <<>>]}
    \cup {[kind |-> "mapping", doc |-> d] : d \in SeqsUpTo(I18nSamples, 1)}

Queries == {<<>>, <<97>>, <<97, 66>>, <<196, 98>>}   \* "", "a", "aB", "A-umlaut b"
Languages == {"en", "de", "zh"}
Identifiers == {<<97, 98>>, <<120, 49>>, <<120, 50>>, <<120, 51>>}
Limits == 0..MaxLimit
\* Values of the setting search.min_chars (the settings dialog offers 1..10).
MinChars == 1..MaxMinChars

(***************************************************************************)
(* SearchEngine.load_items and WFItemsLoader.load_data.                    *)
(***************************************************************************)
\* A row test that looks at the number of fields only.
RowOk_length_only(row) == Len(row) >= 2

\* The row test shared by both CSV loaders.
RowOk(row) ==
    /\ Len(row) >= 2
    /\ Strip(row[1]) # <<>>
    /\ Strip(row[2]) # <<>>

RECURSIVE load_items_rows(_, _)
load_items_rows(rows, acc) ==
    IF rows = <<>> THEN acc
    ELSE load_items_rows(Tail(rows),
            IF RowOk(Head(rows))
            THEN Append(acc, <<Strip(Head(rows)[1]), Strip(Head(rows)[2])>>)
            ELSE acc)

\* SearchEngine.load_items: self.items after the call.
load_items(file) ==
    IF ~file.exists \/ file.rows = <<>> THEN <<>>
    ELSE load_items_rows(Tail(file.rows), <<>>)

\* SearchEngine.load_items: its return value.
load_items_ok(file) == file.exists /\ file.rows # <<>>

RECURSIVE load_csv_rows(_, _)
load_csv_rows(rows, names) ==
    IF rows = <<>> THEN names
    ELSE load_csv_rows(Tail(rows),
            IF RowOk(Head(rows))
            THEN DictSet(names, Strip(Head(rows)[1]), Strip(Head(rows)[2]))
            ELSE names)

\* WFItemsLoader._load_csv: the return value and self.english_names after it.
load_csv(file, names) ==
    IF ~file.exists \/ file.rows = <<>>
    THEN [ok |-> FALSE, english_names |-> names]
    ELSE [ok |-> TRUE, english_names |-> load_csv_rows(Tail(file.rows), names)]

\* WFItemsLoader._load_i18n: the return value and self.i18n_data after it.
\* json.load accepts every JSON document, whatever its top level is.
load_i18n(file, ld) ==
    IF file.kind = "mapping"
    THEN [ok |-> TRUE, i18n_data |-> file.doc, i18n_type |-> "dict"]
    ELSE IF file.kind = "array"
         THEN [ok |-> TRUE, i18n_data |-> file.doc, i18n_type |-> "list"]
         ELSE [ok |-> FALSE, i18n_data |-> ld.i18n_data, i18n_type |-> ld.i18n_type]

\* Lines 103-120 of load_data: both files are read, the name table first.
read_files(ld) ==
    LET c == load_csv(csv_file, ld.english_names)
    IN  IF ~c.ok
        THEN [ok |-> FALSE, ld |-> [ld EXCEPT !.english_names = c.english_names]]
        ELSE LET t == load_i18n(i18n_file, ld)
             IN  IF ~t.ok
                 THEN [ok |-> FALSE,
                       ld |-> [ld EXCEPT !.english_names = c.english_names]]
                 ELSE [ok |-> TRUE,
                       ld |-> [english_names |-> c.english_names,
                               i18n_data |-> t.i18n_data,
                               i18n_type |-> t.i18n_type,
                               loaded |-> TRUE]]

\* A load_data that reads the files again on every call.
load_data_reread(ld) == read_files(ld)

\* WFItemsLoader.load_data: the return value and the loader's fields after it.
load_data(ld) ==
    IF ld.loaded THEN [ok |-> TRUE, ld |-> ld]
    ELSE read_files(ld)

\* The loader's fields in the current state.
Loader == [english_names |-> english_names, i18n_data |-> i18n_data,
           i18n_type |-> i18n_type, loaded |-> loaded]

\* EnsureLoaded that goes on after a failed load.
EnsureLoaded_unchecked(ld) == [ok |-> TRUE, ld |-> load_data(ld).ld]

\* `if not self.loaded: if not self.load_data(): return ...` at the head of
\* every query of WFItemsLoader.
EnsureLoaded(ld) == IF ld.loaded THEN [ok |-> TRUE, ld |-> ld] ELSE load_data(ld)

(***************************************************************************)
(* SearchEngine.search and SearchEngine.get_suggestions.                   *)
(***************************************************************************)
\* `not query or len(query) < 2`
\* A length test that lets one-character queries through.
TooShort_only_empty(query) == query = <<>>

TooShort(query) == query = <<>> \/ Len(query) < 2

\* SearchMatch on the English name alone.
SearchMatch_name_only(item, query_lower) ==
    Contains(query_lower, Lower(item[2]))

\* The row test of SearchEngine.search.
SearchMatch(item, query_lower) ==
    \/ Contains(query_lower, Lower(item[1]))
    \/ Contains(query_lower, Lower(item[2]))

RECURSIVE search_loop(_, _, _, _)
search_loop(rest, query_lower, limit, results) ==
    IF rest = <<>> THEN results
    ELSE IF SearchMatch(Head(rest), query_lower)
         THEN LET r == Append(results, Head(rest))
              IN  IF Len(r) >= limit THEN r
                  ELSE search_loop(Tail(rest), query_lower, limit, r)
         ELSE search_loop(Tail(rest), query_lower, limit, results)

\* SearchEngine.search(query, limit) over self.items.
search(its, query, limit) ==
    IF TooShort(query) THEN <<>>
    ELSE search_loop(its, Lower(query), limit, <<>>)

SeqHas(seq, x) == \E i \in 1..Len(seq) : seq[i] = x

RECURSIVE suggestions_loop(_, _, _, _)
suggestions_loop(rest, prefix_lower, limit, suggestions) ==
    IF rest = <<>> THEN suggestions
    ELSE LET localized_name == Head(rest)[2]
         IN  IF StartsWith(Lower(localized_name), prefix_lower)
                /\ ~SeqHas(suggestions, localized_name)
             THEN LET s == Append(suggestions, localized_name)
                  IN  IF Len(s) >= limit THEN s
                      ELSE suggestions_loop(Tail(rest), prefix_lower, limit, s)
             ELSE suggestions_loop(Tail(rest), prefix_lower, limit, suggestions)

\* SearchEngine.get_suggestions(prefix, limit) over self.items.
get_suggestions(its, prefix, limit) ==
    IF Len(prefix) < 1 THEN <<>>
    ELSE suggestions_loop(its, Lower(prefix), limit, <<>>)

(***************************************************************************)
(* WFItemsLoader.search_by_language.                                       *)
(***************************************************************************)
\* any(internal_name == r[0] for r in results)
HasId(results, internal_name) == \E i \in 1..Len(results) : results[i][1] = internal_name

RECURSIVE english_loop(_, _, _, _)
\* The language == "en" branch: English names only, break at the limit.
english_loop(rest, query_lower, limit, results) ==
    IF rest = <<>> THEN results
    ELSE IF Contains(query_lower, Lower(Head(rest)[2]))
         THEN LET r == Append(results, Head(rest))
              IN  IF Len(r) >= limit THEN r
                  ELSE english_loop(Tail(rest), query_lower, limit, r)
         ELSE english_loop(Tail(rest), query_lower, limit, results)

\* One entry of i18n_data matches the query in `language`.
TargetMatch(entry, language, query_lower) ==
    /\ DictHas(entry[2], language)
    /\ DictHas(DictGet(entry[2], language), "name")
    /\ Contains(query_lower, Lower(DictGet(DictGet(entry[2], language), "name")))

RECURSIVE target_language_results(_, _, _)
target_language_results(data, language, query_lower) ==
    IF data = <<>> THEN <<>>
    ELSE LET rest == target_language_results(Tail(data), language, query_lower)
         IN  IF TargetMatch(Head(data), language, query_lower)
             THEN << <<Head(data)[1], DictGet(DictGet(Head(data)[2], language), "name")>> >>
                  \o rest
             ELSE rest

RECURSIVE english_results_all(_, _, _)
\* english_results without the check against the target hits.
english_results_all(names, targets, query_lower) ==
    IF names = <<>> THEN <<>>
    ELSE LET rest == english_results_all(Tail(names), targets, query_lower)
         IN  IF Contains(query_lower, Lower(Head(names)[2]))
             THEN <<Head(names)>> \o rest
             ELSE rest

RECURSIVE english_results(_, _, _)
english_results(names, targets, query_lower) ==
    IF names = <<>> THEN <<>>
    ELSE LET rest == english_results(Tail(names), targets, query_lower)
         IN  IF ~HasId(targets, Head(names)[1])
                /\ Contains(query_lower, Lower(Head(names)[2]))
             THEN <<Head(names)>> \o rest
             ELSE rest

RECURSIVE fill_targets(_, _, _)
\* Lines 304-309: append the target hits not yet chosen, break at the limit.
fill_targets(targets, limit, results) ==
    IF targets = <<>> THEN results
    ELSE IF HasId(results, Head(targets)[1])
         THEN fill_targets(Tail(targets), limit, results)
         ELSE LET r == Append(results, Head(targets))
              IN  IF Len(r) >= limit THEN r
                  ELSE fill_targets(Tail(targets), limit, r)

\* merge_results with the two branches exchanged.
merge_results_swapped(is_ascii_query, english, targets, limit) ==
    IF ~is_ascii_query
    THEN LET results == Take(english, limit)
         IN  IF Len(results) < limit THEN fill_targets(targets, limit, results)
             ELSE results
    ELSE LET results == Take(targets, limit)
         IN  IF Len(results) < limit
             THEN results \o Take(english, limit - Len(results))
             ELSE results

\* Lines 295-317: the merge of the two candidate lists.
merge_results(is_ascii_query, english, targets, limit) ==
    IF is_ascii_query
    THEN LET results == Take(english, limit)
         IN  IF Len(results) < limit THEN fill_targets(targets, limit, results)
             ELSE results
    ELSE LET results == Take(targets, limit)
         IN  IF Len(results) < limit
             THEN results \o Take(english, limit - Len(results))
             ELSE results

\* Lines 251-320: the search over loaded data.
search_loaded(names, data, query, language, limit) ==
    IF TooShort(query) THEN <<>>
    ELSE IF language = "en"
         THEN english_loop(names, Lower(query), limit, <<>>)
         ELSE LET targets == target_language_results(data, language, Lower(query))
                  english == english_results(names, targets, Lower(query))
              IN  merge_results(IsAsciiQuery(query), english, targets, limit)

\* WFItemsLoader.search_by_language: the result and the loader after the call.
\* `raised` names the exception that leaves the call instead of a result:
\* a list has no .items() (line 276).
loader_search_by_language(ld, query, language, limit) ==
    LET e == EnsureLoaded(ld)
        raises == /\ e.ok /\ ~TooShort(query) /\ language # "en"
                  /\ e.ld.i18n_type # "dict"
    IN  [ld |-> e.ld,
         raised |-> IF raises THEN "AttributeError" ELSE "none",
         result |-> IF ~e.ok \/ raises THEN <<>>
                    ELSE search_loaded(e.ld.english_names, e.ld.i18n_data,
                                       query, language, limit)]

(***************************************************************************)
(* WFItemsLoader.search_all_languages.                                     *)
(***************************************************************************)
RECURSIVE all_english_loop(_, _, _, _)
all_english_loop(rest, query_lower, limit, results) ==
    IF rest = <<>> THEN [done |-> FALSE, results |-> results]
    ELSE IF Contains(query_lower, Lower(Head(rest)[2]))
         THEN LET r == Append(results, <<Head(rest)[1], Head(rest)[2], "en">>)
              IN  IF Len(r) >= limit THEN [done |-> TRUE, results |-> r]
                  ELSE all_english_loop(Tail(rest), query_lower, limit, r)
         ELSE all_english_loop(Tail(rest), query_lower, limit, results)

RECURSIVE all_langs_loop(_, _, _, _, _)
\* The inner loop over the languages of one identifier.
all_langs_loop(internal_name, langs, query_lower, limit, results) ==
    IF langs = <<>> THEN [done |-> FALSE, results |-> results]
    ELSE LET lang == Head(langs)[1]
             lang_data == Head(langs)[2]
         IN  IF /\ DictHas(lang_data, "name")
                /\ Contains(query_lower, Lower(DictGet(lang_data, "name")))
                /\ ~HasId(results, internal_name)
             THEN LET r == Append(results,
                                  <<internal_name, DictGet(lang_data, "name"), lang>>)
                  IN  IF Len(r) >= limit THEN [done |-> TRUE, results |-> r]
                      ELSE all_langs_loop(internal_name, Tail(langs), query_lower, limit, r)
             ELSE all_langs_loop(internal_name, Tail(langs), query_lower, limit, results)

RECURSIVE all_i18n_loop(_, _, _, _)
all_i18n_loop(data, query_lower, limit, results) ==
    IF data = <<>> THEN results
    ELSE LET s == all_langs_loop(Head(data)[1], Head(data)[2], query_lower, limit, results)
         IN  IF s.done THEN s.results
             ELSE all_i18n_loop(Tail(data), query_lower, limit, s.results)

\* Lines 337-362: the all-language search over loaded data.
search_all_loaded(names, data, query, limit) ==
    IF TooShort(query) THEN <<>>
    ELSE LET s == all_english_loop(names, Lower(query), limit, <<>>)
         IN  IF s.done THEN s.results
             ELSE all_i18n_loop(data, Lower(query), limit, s.results)

\* A search_all_languages that searches on after a failed load.
loader_search_all_languages_unchecked(ld, query, limit) ==
    LET e == EnsureLoaded(ld)
    IN  [ld |-> e.ld,
         raised |-> "none",
         result |-> search_all_loaded(e.ld.english_names,
                                      IF e.ld.i18n_type = "dict" THEN e.ld.i18n_data
                                      ELSE <<>>,
                                      query, limit)]

\* WFItemsLoader.search_all_languages: the result and the loader after the call.
\* A list has no .items() (line 351), reached unless the English loop returned.
loader_search_all_languages(ld, query, limit) ==
    LET e == EnsureLoaded(ld)
        raises == /\ e.ok /\ ~TooShort(query) /\ e.ld.i18n_type # "dict"
                  /\ ~all_english_loop(e.ld.english_names, Lower(query), limit, <<>>).done
    IN  [ld |-> e.ld,
         raised |-> IF raises THEN "AttributeError" ELSE "none",
         result |-> IF ~e.ok \/ raises THEN <<>>
                    ELSE IF e.ld.i18n_type # "dict"
                         THEN search_all_loaded(e.ld.english_names, <<>>, query, limit)
                         ELSE search_all_loaded(e.ld.english_names, e.ld.i18n_data,
                                                query, limit)]

(***************************************************************************)
(* WFItemsLoader point queries.                                            *)
(***************************************************************************)
\* self.english_names.get(internal_name, "")
EnglishName(names, internal_name) ==
    IF DictHas(names, internal_name) THEN DictGet(names, internal_name) ELSE <<>>

\* item_name_loaded without the fallback to the English name.
item_name_loaded_no_fallback(names, data, internal_name, language) ==
    IF language = "en" THEN EnglishName(names, internal_name)
    ELSE IF /\ DictHas(data, internal_name)
            /\ DictHas(DictGet(data, internal_name), language)
            /\ DictGet(DictGet(data, internal_name), language) # <<>>
            /\ DictHas(DictGet(DictGet(data, internal_name), language), "name")
         THEN DictGet(DictGet(DictGet(data, internal_name), language), "name")
         ELSE <<>>

\* Lines 194-205: the lookup over loaded data.
item_name_loaded(names, data, internal_name, language) ==
    IF language = "en" THEN EnglishName(names, internal_name)
    ELSE IF /\ DictHas(data, internal_name)
            /\ DictHas(DictGet(data, internal_name), language)
            /\ DictGet(DictGet(data, internal_name), language) # <<>>
            /\ DictHas(DictGet(DictGet(data, internal_name), language), "name")
         THEN DictGet(DictGet(DictGet(data, internal_name), language), "name")
         ELSE EnglishName(names, internal_name)

\* WFItemsLoader.get_item_name: the result and the loader after the call.
\* On a list `internal_name in self.i18n_data` tests the elements and
\* self.i18n_data[internal_name] (line 200) is a TypeError.
get_item_name(ld, internal_name, language) ==
    LET e == EnsureLoaded(ld)
        is_list == e.ok /\ e.ld.i18n_type # "dict"
        raises == is_list /\ language # "en" /\ SeqHas(e.ld.i18n_data, internal_name)
    IN  [ld |-> e.ld,
         raised |-> IF raises THEN "TypeError" ELSE "none",
         result |-> IF ~e.ok \/ raises THEN <<>>
                    ELSE IF is_list THEN EnglishName(e.ld.english_names, internal_name)
                    ELSE item_name_loaded(e.ld.english_names, e.ld.i18n_data,
                                          internal_name, language)]

\* Lines 376-394: "en" and every language key of every identifier.
\* languages_loaded that starts from the empty set.
languages_loaded_without_en(data) ==
    UNION {DictKeys(data[i][2]) : i \in 1..Len(data)}

languages_loaded(data) ==
    {"en"} \cup UNION {DictKeys(data[i][2]) : i \in 1..Len(data)}

\* WFItemsLoader.get_supported_languages: the result and the loader after it.
\* A list has no .values() (line 379).
loader_get_supported_languages(ld) ==
    LET e == EnsureLoaded(ld)
        raises == e.ok /\ e.ld.i18n_type # "dict"
    IN  [ld |-> e.ld,
         raised |-> IF raises THEN "AttributeError" ELSE "none",
         result |-> IF ~e.ok \/ raises THEN {"en"}
                    ELSE languages_loaded(e.ld.i18n_data)]

\* item_count_loaded as the sum of the two table sizes.
item_count_loaded_sum(names, data) == Len(names) + Len(data)

\* Lines 408-410: the size of the merged key set.
item_count_loaded(names, data) == Cardinality(DictKeys(names) \cup DictKeys(data))

\* WFItemsLoader.get_item_count: the result and the loader after the call.
\* A list has no .keys() (line 409).
loader_get_item_count(ld) ==
    LET e == EnsureLoaded(ld)
        raises == e.ok /\ e.ld.i18n_type # "dict"
    IN  [ld |-> e.ld,
         raised |-> IF raises THEN "AttributeError" ELSE "none",
         result |-> IF ~e.ok \/ raises THEN 0
                    ELSE item_count_loaded(e.ld.english_names, e.ld.i18n_data)]

RECURSIVE item_names_loop(_, _)
item_names_loop(langs, result) ==
    IF langs = <<>> THEN result
    ELSE item_names_loop(Tail(langs),
            IF DictHas(Head(langs)[2], "name")
            THEN DictSet(result, Head(langs)[1], DictGet(Head(langs)[2], "name"))
            ELSE result)

\* WFItemsLoader.get_item_names past the load check: language -> name.
item_names_loaded(names, data, internal_name) ==
    LET english == IF DictHas(names, internal_name)
                   THEN << <<"en", DictGet(names, internal_name)>> >>
                   ELSE <<>>
    IN  IF DictHas(data, internal_name)
        THEN item_names_loop(DictGet(data, internal_name), english)
        ELSE english

\* On a list self.i18n_data[internal_name] (line 229) is a TypeError.
get_item_names(ld, internal_name) ==
    LET e == EnsureLoaded(ld)
        is_list == e.ok /\ e.ld.i18n_type # "dict"
        raises == is_list /\ SeqHas(e.ld.i18n_data, internal_name)
    IN  [ld |-> e.ld,
         raised |-> IF raises THEN "TypeError" ELSE "none",
         result |-> IF ~e.ok \/ raises THEN <<>>
                    ELSE item_names_loaded(e.ld.english_names,
                                           IF is_list THEN <<>> ELSE e.ld.i18n_data,
                                           internal_name)]

\* SearchEngine.get_by_internal_name: the name of the first row of self.items
\* with that identifier.
get_by_internal_name(its, internal_name) ==
    IF HasId(its, internal_name)
    THEN its[CHOOSE i \in 1..Len(its) :
                 /\ its[i][1] = internal_name
                 /\ \A j \in 1..(i - 1) : its[j][1] # internal_name][2]
    ELSE <<>>

\* A get_all_items that hands out self.items itself.
get_all_items_shared(its) == [list |-> its, same_object |-> TRUE]

\* SearchEngine.get_all_items: self.items.copy(), a new list object.
get_all_items(its) == [list |-> its, same_object |-> FALSE]

\* What a caller can do to a list it holds: list.clear(), list.append(row).
Mutations == {"clear", "append"}

mutate(list, mutation) ==
    IF mutation = "clear" THEN <<>>
    ELSE Append(list, << <<120, 51>>, <<113>> >>)          \* ("x3", "q")

(***************************************************************************)
(* SearchEngine operations that go through the loader.                     *)
(***************************************************************************)
\* SearchEngine._get_wf_items_loader: the loader after the lazy first load.
get_wf_items_loader(ref, ld) == IF ref = "None" THEN load_data(ld).ld ELSE ld

\* SearchEngine.search_by_language: the result and the loader after the call.
engine_search_by_language(ref, ld, its, query, language, limit) ==
    IF TooShort(query) THEN [ld |-> ld, ref |-> ref, result |-> <<>>]
    ELSE LET r == loader_search_by_language(get_wf_items_loader(ref, ld),
                                            query, language, limit)
         IN  [ld |-> r.ld, ref |-> "loader",
              result |-> IF r.raised = "none" /\ r.result # <<>> THEN r.result
                         ELSE search(its, query, limit)]

(***************************************************************************)
(* The main window, the API client and the patch directory before any of   *)
(* their operations has run.                                               *)
(***************************************************************************)
\* MainWindow.__init__ before setup_language_combo: the combo is empty.
NoWindow ==
    [codes |-> <<>>, index |-> -1, current_language |-> "zh",
     saved_language |-> "auto", initializing |-> TRUE]

\* APIClient.__init__: both cache dicts are empty; `now` is time.time().
\* What get_item_data returns: None, or a JSON document.
None == [none |-> TRUE, data |-> <<>>]
Some(data) == [none |-> FALSE, data |-> data]

\* No call of the API client has been made.
NoCall ==
    [op |-> "none", key |-> <<>>, use_cache |-> FALSE, ttl |-> 0,
     outcomes |-> <<>>,
     source |-> "none", attempts |-> 0, waits |-> <<>>, exception_of |-> 0,
     raised |-> "none", result |-> None]

\* APIClient(base_url, max_retries=max_retries); `mock` says that base_url
\* is the default "http://localhost:8080".  `now` is time.time().
Client(mock, max_retries) ==
    [cache |-> <<>>, cache_ttl |-> <<>>, now |-> 0, mock |-> mock,
     max_retries |-> max_retries, call |-> NoCall]

\* APIClient(): the defaults of __init__.
NewClient == Client(TRUE, 3)

\* No patch directory scanned, no file open in the editor.
\* No click on the enable or disable button has been handled.
NoClick ==
    [op |-> "none", name |-> <<>>, confirm |-> FALSE, overwrite |-> FALSE,
     new_name |-> <<>>, renamed |-> FALSE]

NoPatches ==
    [files |-> {}, list |-> <<>>, selected |-> 0, current_file_path |-> <<>>,
     os |-> "posix", click |-> NoClick]

(***************************************************************************)
(* The state machine.  A call records its arguments and result in `last`;  *)
(* Return hands the result to the caller.                                  *)
(***************************************************************************)
Idle == [op |-> "none", query |-> <<>>, language |-> "en", limit |-> 0,
         internal_name |-> <<>>, result |-> <<>>, raised |-> "none",
         min_chars |-> 2]

Call(op, query, language, limit, internal_name, result) ==
    [op |-> op, query |-> query, language |-> language, limit |-> limit,
     internal_name |-> internal_name, result |-> result, raised |-> "none",
     min_chars |-> 2]

\* The call as the caller sees it when the exception `raised` leaves it.
Outcome(call, raised) == [call EXCEPT !.raised = raised]

SetLoader(ld) ==
    /\ english_names' = ld.english_names
    /\ i18n_data' = ld.i18n_data
    /\ i18n_type' = ld.i18n_type
    /\ loaded' = ld.loaded

\* SearchEngine() has been constructed (load_items ran); the loader singleton
\* does not exist yet.
Init ==
    /\ csv_file \in CsvFiles
    /\ i18n_file \in I18nFiles
    /\ items = load_items(csv_file)
    /\ wf_items_loader = "None"
    /\ english_names = <<>>
    /\ i18n_data = <<>>
    /\ i18n_type = "dict"
    /\ loaded = FALSE
    /\ last = Idle
    /\ window = NoWindow
    /\ api = NewClient
    /\ patches = NoPatches

Search ==
    \E query \in Queries, limit \in Limits :
        /\ last.op = "none"
        /\ last' = Call("search", query, "en", limit, <<>>, search(items, query, limit))
        /\ UNCHANGED <<window, api, patches, csv_file, i18n_file, items, wf_items_loader,
                       english_names, i18n_data, i18n_type, loaded>>

GetSuggestions ==
    \E prefix \in Queries, limit \in Limits :
        /\ last.op = "none"
        /\ last' = Call("get_suggestions", prefix, "en", limit, <<>>,
                        get_suggestions(items, prefix, limit))
        /\ UNCHANGED <<window, api, patches, csv_file, i18n_file, items, wf_items_loader,
                       english_names, i18n_data, i18n_type, loaded>>

EngineSearchByLanguage ==
    \E query \in Queries, language \in Languages, limit \in Limits :
        LET r == engine_search_by_language(wf_items_loader, Loader, items,
                                           query, language, limit)
        IN  /\ last.op = "none"
            /\ last' = Call("engine.search_by_language", query, language, limit,
                            <<>>, r.result)
            /\ wf_items_loader' = r.ref
            /\ SetLoader(r.ld)
            /\ UNCHANGED <<window, api, patches, csv_file, i18n_file, items>>

EngineGetSupportedLanguages ==
    LET r == loader_get_supported_languages(get_wf_items_loader(wf_items_loader, Loader))
    IN  /\ last.op = "none"
        /\ last' = Call("engine.get_supported_languages", <<>>, "en", 0, <<>>,
                        IF r.raised = "none" THEN r.result ELSE {"en"})
        /\ wf_items_loader' = "loader"
        /\ SetLoader(r.ld)
        /\ UNCHANGED <<window, api, patches, csv_file, i18n_file, items>>

EngineGetItemCount ==
    LET r == loader_get_item_count(get_wf_items_loader(wf_items_loader, Loader))
    IN  /\ last.op = "none"
        /\ last' = Call("engine.get_item_count", <<>>, "en", 0, <<>>,
                        IF r.raised = "none" THEN r.result ELSE Len(items))
        /\ wf_items_loader' = "loader"
        /\ SetLoader(r.ld)
        /\ UNCHANGED <<window, api, patches, csv_file, i18n_file, items>>

LoaderSearchByLanguage ==
    \E query \in Queries, language \in Languages, limit \in Limits :
        LET r == loader_search_by_language(Loader, query, language, limit)
        IN  /\ last.op = "none"
            /\ last' = Outcome(Call("search_by_language", query, language, limit,
                                    <<>>, r.result), r.raised)
            /\ SetLoader(r.ld)
            /\ UNCHANGED <<window, api, patches, csv_file, i18n_file, items, wf_items_loader>>

LoaderSearchAllLanguages ==
    \E query \in Queries, limit \in Limits :
        LET r == loader_search_all_languages(Loader, query, limit)
        IN  /\ last.op = "none"
            /\ last' = Outcome(Call("search_all_languages", query, "en", limit,
                                    <<>>, r.result), r.raised)
            /\ SetLoader(r.ld)
            /\ UNCHANGED <<window, api, patches, csv_file, i18n_file, items, wf_items_loader>>

GetItemName ==
    \E internal_name \in Identifiers, language \in Languages :
        LET r == get_item_name(Loader, internal_name, language)
        IN  /\ last.op = "none"
            /\ last' = Outcome(Call("get_item_name", <<>>, language, 0,
                                    internal_name, r.result), r.raised)
            /\ SetLoader(r.ld)
            /\ UNCHANGED <<window, api, patches, csv_file, i18n_file, items, wf_items_loader>>

LoaderGetSupportedLanguages ==
    LET r == loader_get_supported_languages(Loader)
    IN  /\ last.op = "none"
        /\ last' = Outcome(Call("get_supported_languages", <<>>, "en", 0, <<>>,
                                r.result), r.raised)
        /\ SetLoader(r.ld)
        /\ UNCHANGED <<window, api, patches, csv_file, i18n_file, items, wf_items_loader>>

LoaderGetItemCount ==
    LET r == loader_get_item_count(Loader)
    IN  /\ last.op = "none"
        /\ last' = Outcome(Call("get_item_count", <<>>, "en", 0, <<>>, r.result),
                            r.raised)
        /\ SetLoader(r.ld)
        /\ UNCHANGED <<window, api, patches, csv_file, i18n_file, items, wf_items_loader>>

GetItemNames ==
    \E internal_name \in Identifiers :
        LET r == get_item_names(Loader, internal_name)
        IN  /\ last.op = "none"
            /\ last' = Outcome(Call("get_item_names", <<>>, "en", 0,
                                    internal_name, r.result), r.raised)
            /\ SetLoader(r.ld)
            /\ UNCHANGED <<window, api, patches, csv_file, i18n_file, items, wf_items_loader>>

GetByInternalName ==
    \E internal_name \in Identifiers :
        /\ last.op = "none"
        /\ last' = Call("get_by_internal_name", <<>>, "en", 0, internal_name,
                        get_by_internal_name(items, internal_name))
        /\ UNCHANGED <<window, api, patches, csv_file, i18n_file, items, wf_items_loader,
                       english_names, i18n_data, i18n_type, loaded>>

\* A direct call of WFItemsLoader.load_data; its result is the return value.
LoadData ==
    LET r == load_data(Loader)
    IN  /\ last.op = "none"
        /\ last' = Call("load_data", <<>>, "en", 0, <<>>, r.ok)
        /\ SetLoader(r.ld)
        /\ UNCHANGED <<window, api, patches, csv_file, i18n_file, items, wf_items_loader>>

\* SearchEngine.load_items called again (reload); its result is the return value.
LoadItems ==
    /\ last.op = "none"
    /\ last' = Call("load_items", <<>>, "en", 0, <<>>, load_items_ok(csv_file))
    /\ items' = load_items(csv_file)
    /\ UNCHANGED <<window, api, patches, csv_file, i18n_file, wf_items_loader,
                   english_names, i18n_data, i18n_type, loaded>>

\* MainWindow._perform_search with the settings search.min_chars and
\* search.max_results: the rows put into the results list.
PerformSearch ==
    \E query \in Queries, language \in Languages, max_results \in Limits,
       min_chars \in MinChars :
        LET r == engine_search_by_language(wf_items_loader, Loader, items,
                                           query, language, max_results)
            short == Len(query) < min_chars
        IN  /\ last.op = "none"
            /\ last' = [Call("perform_search", query, language, max_results, <<>>,
                             IF short THEN <<>> ELSE r.result)
                            EXCEPT !.min_chars = min_chars]
            /\ wf_items_loader' = IF short THEN wf_items_loader ELSE r.ref
            /\ SetLoader(IF short THEN Loader ELSE r.ld)
            /\ UNCHANGED <<window, api, patches, csv_file, i18n_file, items>>

GetAllItems ==
    /\ last.op = "none"
    /\ last' = Call("get_all_items", <<>>, "en", 0, <<>>, get_all_items(items).list)
    /\ UNCHANGED <<window, api, patches, csv_file, i18n_file, items, wf_items_loader,
                   english_names, i18n_data, i18n_type, loaded>>

\* The caller changes the list get_all_items returned; self.items changes
\* with it exactly if it is the same list object.
MutateReturnedList ==
    \E mutation \in Mutations :
        /\ last.op = "get_all_items"
        /\ last' = [last EXCEPT !.op = "get_all_items.mutated",
                                !.result = mutate(@, mutation)]
        /\ items' = IF get_all_items(items).same_object
                    THEN mutate(items, mutation)
                    ELSE items
        /\ UNCHANGED <<window, api, patches, csv_file, i18n_file, wf_items_loader,
                       english_names, i18n_data, i18n_type, loaded>>

\* The caller takes the result.
Return ==
    /\ last.op # "none"
    /\ last' = Idle
    /\ UNCHANGED <<window, api, patches, csv_file, i18n_file, items, wf_items_loader,
                   english_names, i18n_data, i18n_type, loaded>>

Next ==
    \/ Search
    \/ GetSuggestions
    \/ EngineSearchByLanguage
    \/ EngineGetSupportedLanguages
    \/ EngineGetItemCount
    \/ LoaderSearchByLanguage
    \/ LoaderSearchAllLanguages
    \/ GetItemName
    \/ LoaderGetSupportedLanguages
    \/ LoaderGetItemCount
    \/ GetItemNames
    \/ GetByInternalName
    \/ LoadData
    \/ LoadItems
    \/ GetAllItems
    \/ MutateReturnedList
    \/ PerformSearch
    \/ Return

Spec == Init /\ [][Next]_vars

\* The same program started on translation files of every top-level shape.
InitShapes ==
    /\ csv_file \in CsvFiles
    /\ i18n_file \in ShapeFiles
    /\ items = load_items(csv_file)
    /\ wf_items_loader = "None"
    /\ english_names = <<>>
    /\ i18n_data = <<>>
    /\ i18n_type = "dict"
    /\ loaded = FALSE
    /\ last = Idle
    /\ window = NoWindow
    /\ api = NewClient
    /\ patches = NoPatches

SpecShapes == InitShapes /\ [][Next]_vars

\* The files on disk are replaced or removed between two calls.
StoredCsvFiles ==
    {[exists |-> FALSE, rows |-> <<>>],
     [exists |-> TRUE, rows |-> <<HeaderRow, << <<120, 49>>, <<98, 65, 98>> >> >>],
     [exists |-> TRUE, rows |-> <<HeaderRow, << <<120, 50>>, <<228, 98, 65, 98>> >>,
                                  << <<120, 49>>, <<32, 65, 98>> >> >>]}

StoredI18nFiles ==
    {[kind |-> "missing", doc |-> <<>>]}
    \cup {[kind |-> "mapping", doc |-> <<e>>] : e \in I18nSamples}

ChangeCsvFile ==
    \E file \in StoredCsvFiles \ {csv_file} :
        /\ last.op = "none"
        /\ csv_file' = file
        /\ UNCHANGED <<window, api, patches, i18n_file, items, wf_items_loader,
                       english_names, i18n_data, i18n_type, loaded, last>>

ChangeI18nFile ==
    \E file \in StoredI18nFiles \ {i18n_file} :
        /\ last.op = "none"
        /\ i18n_file' = file
        /\ UNCHANGED <<window, api, patches, csv_file, items, wf_items_loader,
                       english_names, i18n_data, i18n_type, loaded, last>>

InitFiles ==
    /\ csv_file \in StoredCsvFiles
    /\ i18n_file \in StoredI18nFiles
    /\ items = load_items(csv_file)
    /\ wf_items_loader = "None"
    /\ english_names = <<>>
    /\ i18n_data = <<>>
    /\ i18n_type = "dict"
    /\ loaded = FALSE
    /\ last = Idle
    /\ window = NoWindow
    /\ api = NewClient
    /\ patches = NoPatches

\* Name-table files with well-formed and malformed rows mixed: a blank
\* line, a single field, a blank identifier, a blank name, three fields.
MixedRows ==
    { <<>>,
      << <<120, 51>> >>,                                  \* "x3"
      << <<32>>, <<66, 97>> >>,                           \* " ", "Ba"
      << <<120, 51>>, <<32, 9>> >>,                       \* "x3", " \t"
      << <<120, 49>>, <<98, 65, 98>> >>,                  \* "x1", "bAb"
      << <<32, 120, 50, 32>>, <<65, 98>>, <<122>> >> }    \* " x2 ", "Ab", "z"

MixedCsvFiles ==
    {[exists |-> FALSE, rows |-> <<>>], [exists |-> TRUE, rows |-> <<>>]}
    \cup {[exists |-> TRUE, rows |-> <<HeaderRow>> \o data] :
              data \in SeqsUpTo(MixedRows, MaxRows)}

InitRows ==
    /\ csv_file \in MixedCsvFiles
    /\ i18n_file \in {[kind |-> "missing", doc |-> <<>>],
                       [kind |-> "mapping", doc |-> <<>>]}
    /\ items = load_items(csv_file)
    /\ wf_items_loader = "None"
    /\ english_names = <<>>
    /\ i18n_data = <<>>
    /\ i18n_type = "dict"
    /\ loaded = FALSE
    /\ last = Idle
    /\ window = NoWindow
    /\ api = NewClient
    /\ patches = NoPatches

SpecRows == InitRows /\ [][Next]_vars

\* Translation documents that carry an "en" record of their own.
EnSamples ==
    { << <<120, 49>>,                                   \* "x1"
         << <<"en", << <<"name", <<81, 98>> >> >> >>,   \* "Qb"
            <<"de", << <<"name", <<228, 98, 65, 98>> >> >> >> >> >>,
      << <<120, 51>>,                                   \* "x3"
         << <<"en", << <<"name", <<65, 98>> >> >> >> >> >> }

EnFiles ==
    {[kind |-> "missing", doc |-> <<>>]}
    \cup {[kind |-> "mapping", doc |-> d] : d \in SeqsUpTo(EnSamples, 1)}

InitEn ==
    /\ csv_file \in CsvFiles
    /\ i18n_file \in EnFiles
    /\ items = load_items(csv_file)
    /\ wf_items_loader = "None"
    /\ english_names = <<>>
    /\ i18n_data = <<>>
    /\ i18n_type = "dict"
    /\ loaded = FALSE
    /\ last = Idle
    /\ window = NoWindow
    /\ api = NewClient
    /\ patches = NoPatches

SpecEn == InitEn /\ [][Next]_vars

(***************************************************************************)
(* MainWindow: the language combo.                                         *)
(***************************************************************************)
\* Values of the setting user.language.
SavedLanguages == {"auto", "en", "de", "zh", "fr"}

\* sorted(supported_languages): the codes of the model in string order.
LanguageOrder == <<"de", "en", "fr", "zh">>

sorted(languages) ==
    LET In(code) == code \in languages
    IN  SelectSeq(LanguageOrder, In)

\* QComboBox.findData: the 0-based index of the code, -1 if it is not there.
findData(codes, code) ==
    IF \E i \in 1..Len(codes) : codes[i] = code
    THEN (CHOOSE i \in 1..Len(codes) : codes[i] = code) - 1
    ELSE -1

\* Lines 254-265: the language chosen from the saved setting.
initial_language(saved_language, codes) ==
    IF saved_language = "auto" THEN "zh"
    ELSE IF findData(codes, saved_language) >= 0 THEN saved_language
    ELSE "zh"

\* MainWindow.setup_language_combo, called once from __init__.  Adding the
\* first item to the cleared combo makes it the current one (index 0); the
\* signal this emits is ignored while initializing_language_combo is set.
SetupLanguageCombo ==
    LET r == loader_get_supported_languages(get_wf_items_loader(wf_items_loader, Loader))
        codes == sorted(IF r.raised = "none" THEN r.result ELSE {"en"})
        language == initial_language(window.saved_language, codes)
        found == findData(codes, language)
    IN  /\ window.initializing
        /\ window' = [window EXCEPT !.codes = codes,
                                    !.current_language = language,
                                    !.index = IF found >= 0 THEN found ELSE 0,
                                    !.initializing = FALSE]
        /\ wf_items_loader' = "loader"
        /\ SetLoader(r.ld)
        /\ UNCHANGED <<api, patches, csv_file, i18n_file, items, last>>

\* The user picks another entry of the combo: MainWindow._on_language_changed
\* with the search box holding search_text (a search follows if it is long
\* enough for the setting search.min_chars).
SelectLanguage ==
    \E index \in 0..(Len(window.codes) - 1), search_text \in Queries,
       min_chars \in MinChars, max_results \in Limits :
        LET lang_code == window.codes[index + 1]
            text == Strip(search_text)
            searches == text # <<>> /\ Len(text) >= min_chars
            r == engine_search_by_language(wf_items_loader, Loader, items,
                                           text, lang_code, max_results)
        IN  /\ ~window.initializing
            /\ index # window.index
            /\ last' = [Call("language_changed", text, lang_code, max_results, <<>>,
                             IF searches THEN r.result ELSE <<>>)
                            EXCEPT !.min_chars = min_chars]
            /\ window' = [window EXCEPT !.index = index,
                                        !.current_language = lang_code,
                                        !.saved_language = lang_code]
            /\ wf_items_loader' = IF searches THEN r.ref ELSE wf_items_loader
            /\ SetLoader(IF searches THEN r.ld ELSE Loader)
            /\ UNCHANGED <<api, patches, csv_file, i18n_file, items>>

InitWindow ==
    /\ csv_file \in CsvFiles
    /\ i18n_file \in I18nFiles
    /\ items = load_items(csv_file)
    /\ wf_items_loader = "None"
    /\ english_names = <<>>
    /\ i18n_data = <<>>
    /\ i18n_type = "dict"
    /\ loaded = FALSE
    /\ last = Idle
    /\ window \in {[NoWindow EXCEPT !.saved_language = s] : s \in SavedLanguages}
    /\ api = NewClient
    /\ patches = NoPatches

NextWindow == SetupLanguageCombo \/ SelectLanguage

SpecWindow == InitWindow /\ [][NextWindow]_vars

(***************************************************************************)
(* APIClient: requests with retry, and the response cache.                 *)
(***************************************************************************)
MaxRetries == 3
MaxTime == 3
MaxTtl == 2

\* ttl=300 of the entries get_item_data writes (api_client.py:97, 113).
ItemTtl == 300

DictDel(d, k) ==
    LET Other(p) == p[1] # k
    IN  SelectSeq(d, Other)

RECURSIVE Pow2(_)
Pow2(n) == IF n = 0 THEN 1 ELSE 2 * Pow2(n - 1)

RECURSIVE SumSeq(_)
SumSeq(s) == IF s = <<>> THEN 0 ELSE Head(s) + SumSeq(Tail(s))

\* What one session.request + raise_for_status does: a response with status
\* 200, a response with another non-error status, or a RequestException
\* (connection error, timeout, HTTP error status).
Statuses == {"200", "204", "error"}

\* The fate of the 1st, 2nd, ... attempt of one call, for each attempt a
\* client with this max_retries can make.
Outcomes(max_retries) == [1..max_retries -> Statuses]

ApiNames == {<<97, 98>>, <<120, 49>>}                \* "ab", "x1"

cache_key(internal_name) == <<105, 116, 101, 109, 58>> \o internal_name   \* "item:" + name

UnknownItem == <<26410, 30693, 29289, 21697>>

\* APIClient._get_mock_item_data: the fields that depend on the input.
get_mock_item_data(its, internal_name) ==
    LET localized_name == get_by_internal_name(its, internal_name)
    IN  << <<"internalName", internal_name>>,
           <<"localizedName", IF localized_name = <<>> THEN UnknownItem
                              ELSE localized_name>> >>

\* JSON documents a server answers with.
Bodies == {<<>>, << <<"internalName", <<97, 98>> >> >>}

\* The loop of APIClient._request_with_retry from `attempt` on; attempts
\* counts the requests sent, waits lists the time.sleep arguments, and
\* exception_of is the attempt whose exception last_exception holds.
RECURSIVE request_loop(_, _, _, _, _)
request_loop(max_retries, outcomes, attempt, waits, exception_of) ==
    IF attempt >= max_retries
    THEN \* raise last_exception; it is None if the loop body never ran
         [attempts |-> attempt, waits |-> waits, exception_of |-> exception_of,
          raised |-> IF exception_of = 0 THEN "TypeError" ELSE "RequestException",
          status |-> "none"]
    ELSE IF outcomes[attempt + 1] # "error"
    THEN [attempts |-> attempt + 1, waits |-> waits, exception_of |-> 0,
          raised |-> "none", status |-> outcomes[attempt + 1]]
    ELSE IF attempt < max_retries - 1
    THEN request_loop(max_retries, outcomes, attempt + 1,
                      Append(waits, Pow2(attempt)), attempt + 1)
    ELSE [attempts |-> attempt + 1, waits |-> waits, exception_of |-> attempt + 1,
          raised |-> "RequestException", status |-> "none"]

request_with_retry(max_retries, outcomes) ==
    request_loop(max_retries, outcomes, 0, <<>>, 0)

\* A validity test that still accepts an entry at its expiry time.
is_cache_valid_inclusive(client, key) ==
    IF ~DictHas(client.cache, key) THEN FALSE
    ELSE client.now <= (IF DictHas(client.cache_ttl, key)
                        THEN DictGet(client.cache_ttl, key) ELSE 0)

\* APIClient._is_cache_valid.
is_cache_valid(client, key) ==
    IF ~DictHas(client.cache, key) THEN FALSE
    ELSE client.now < (IF DictHas(client.cache_ttl, key)
                       THEN DictGet(client.cache_ttl, key) ELSE 0)

\* APIClient._clean_expired_cache: `del` of a key a dict does not hold is a
\* KeyError.
RECURSIVE delete_keys(_, _, _)
delete_keys(client, cache_ttl, i) ==
    IF i > Len(cache_ttl) THEN [client |-> client, raised |-> "none"]
    ELSE LET key == cache_ttl[i][1]
         IN  IF client.now < cache_ttl[i][2]
             THEN delete_keys(client, cache_ttl, i + 1)
             ELSE IF ~DictHas(client.cache, key)
             THEN [client |-> client, raised |-> "KeyError"]
             ELSE delete_keys([client EXCEPT !.cache = DictDel(@, key),
                                             !.cache_ttl = DictDel(@, key)],
                              cache_ttl, i + 1)

clean_expired_cache(client) == delete_keys(client, client.cache_ttl, 1)

\* APIClient._set_cache.
set_cache(client, key, value, ttl) ==
    clean_expired_cache([client EXCEPT !.cache = DictSet(@, key, value),
                                       !.cache_ttl = DictSet(@, key, client.now + ttl)])

\* APIClient.clear_cache.
clear_cache(client) == [client EXCEPT !.cache = <<>>, !.cache_ttl = <<>>]

\* The call record of an operation.
ApiCall(op, key, use_cache) ==
    [NoCall EXCEPT !.op = op, !.key = key, !.use_cache = use_cache]

\* The call record with the bookkeeping of the request r: the outcomes of the
\* attempts made, their number, the waits between them.
Requested(call, outcomes, r) ==
    [call EXCEPT !.outcomes = SubSeq(outcomes, 1, r.attempts), !.attempts = r.attempts,
                 !.waits = r.waits, !.exception_of = r.exception_of]

\* APIClient.get_item_data; the result is the client afterwards, its `call`
\* field describing the call.  time.sleep moves the clock.
get_item_data(client, its, internal_name, use_cache, outcomes, body) ==
    LET key == cache_key(internal_name)
        call == ApiCall("get_item_data", key, use_cache)
        mock_data == get_mock_item_data(its, internal_name)
        r == request_with_retry(client.max_retries, outcomes)
        later == [client EXCEPT !.now = @ + SumSeq(r.waits)]
        requested == Requested(call, outcomes, r)
    IN  IF use_cache /\ is_cache_valid(client, key)
        THEN [client EXCEPT !.call = [call EXCEPT !.source = "cache",
                                                  !.result = Some(DictGet(client.cache, key))]]
        ELSE IF client.mock
        THEN [(IF mock_data # <<>> /\ use_cache
               THEN set_cache(client, key, mock_data, ItemTtl).client
               ELSE client)
              EXCEPT !.call = [call EXCEPT !.source = "mock", !.result = Some(mock_data)]]
        ELSE IF r.raised = "RequestException"
        THEN [later EXCEPT !.call = requested]
        ELSE IF r.raised # "none"
        THEN [later EXCEPT !.call = [requested EXCEPT !.raised = r.raised]]
        ELSE IF r.status = "200"
        THEN [(IF use_cache THEN set_cache(later, key, body, ItemTtl).client ELSE later)
              EXCEPT !.call = [requested EXCEPT !.source = "server",
                                                !.result = Some(body)]]
        ELSE [later EXCEPT !.call = requested]

\* APIClient.search_items; the result list is [] on failure.
search_items(client, outcomes, body) ==
    LET call == ApiCall("search_items", <<>>, FALSE)
        r == request_with_retry(client.max_retries, outcomes)
        later == [client EXCEPT !.now = @ + SumSeq(r.waits)]
        requested == [Requested(call, outcomes, r) EXCEPT !.result = Some(<<>>)]
    IN  IF r.raised = "RequestException"
        THEN [later EXCEPT !.call = requested]
        ELSE IF r.raised # "none"
        THEN [later EXCEPT !.call = [requested EXCEPT !.raised = r.raised]]
        ELSE IF r.status = "200"
        THEN [later EXCEPT !.call = [requested EXCEPT !.source = "server",
                                                      !.result = Some(<<body>>)]]
        ELSE [later EXCEPT !.call = requested]

GetItemData ==
    \E internal_name \in ApiNames, use_cache \in BOOLEAN,
       outcomes \in Outcomes(api.max_retries), body \in Bodies :
        LET after == get_item_data(api, items, internal_name, use_cache, outcomes, body)
        IN  /\ after.now <= MaxTime
            /\ api' = after
            /\ UNCHANGED <<window, patches, csv_file, i18n_file, items, wf_items_loader,
                           english_names, i18n_data, i18n_type, loaded, last>>

SearchItems ==
    \E outcomes \in Outcomes(api.max_retries), body \in Bodies :
        LET after == search_items(api, outcomes, body)
        IN  /\ after.now <= MaxTime
            /\ api' = after
            /\ UNCHANGED <<window, patches, csv_file, i18n_file, items, wf_items_loader,
                           english_names, i18n_data, i18n_type, loaded, last>>

\* APIClient._request_with_retry called on its own.
RequestWithRetry ==
    \E outcomes \in Outcomes(api.max_retries) :
        LET r == request_with_retry(api.max_retries, outcomes)
            call == Requested(ApiCall("request_with_retry", <<>>, FALSE), outcomes, r)
        IN  /\ api.now + SumSeq(r.waits) <= MaxTime
            /\ api' = [api EXCEPT !.now = @ + SumSeq(r.waits),
                                  !.call = [call EXCEPT !.raised = r.raised,
                                                        !.source = r.status]]
            /\ UNCHANGED <<window, patches, csv_file, i18n_file, items, wf_items_loader,
                           english_names, i18n_data, i18n_type, loaded, last>>

SetCache ==
    \E internal_name \in ApiNames, value \in Bodies, ttl \in 0..MaxTtl :
        LET key == cache_key(internal_name)
            r == set_cache(api, key, value, ttl)
        IN  /\ api' = [r.client EXCEPT !.call = [ApiCall("set_cache", key, FALSE)
                                                    EXCEPT !.ttl = ttl,
                                                           !.raised = r.raised]]
            /\ UNCHANGED <<window, patches, csv_file, i18n_file, items, wf_items_loader,
                           english_names, i18n_data, i18n_type, loaded, last>>

CleanExpiredCache ==
    LET r == clean_expired_cache(api)
    IN  /\ api' = [r.client EXCEPT !.call = [ApiCall("clean_expired_cache", <<>>, FALSE)
                                                EXCEPT !.raised = r.raised]]
        /\ UNCHANGED <<window, patches, csv_file, i18n_file, items, wf_items_loader,
                       english_names, i18n_data, i18n_type, loaded, last>>

ClearCache ==
    /\ api' = [clear_cache(api) EXCEPT !.call = ApiCall("clear_cache", <<>>, FALSE)]
    /\ UNCHANGED <<window, patches, csv_file, i18n_file, items, wf_items_loader,
                   english_names, i18n_data, i18n_type, loaded, last>>

\* A second passes between two calls; `call` describes the call that led to
\* the current state, so it is empty afterwards.
Tick ==
    /\ api.now < MaxTime
    /\ api' = [api EXCEPT !.now = @ + 1, !.call = NoCall]
    /\ UNCHANGED <<window, patches, csv_file, i18n_file, items, wf_items_loader,
                   english_names, i18n_data, i18n_type, loaded, last>>

\* Name tables behind the mock data: no file, and one naming "x1".
ApiCsvFiles ==
    {[exists |-> FALSE, rows |-> <<>>],
     [exists |-> TRUE, rows |-> <<HeaderRow, << <<120, 49>>, <<98, 65, 98>> >> >>]}

\* An APIClient has been constructed, with the default or another base_url
\* and a max_retries up to `retries`; the search engine behind the mock data
\* has read its name table.
InitApi(retries) ==
    /\ csv_file \in ApiCsvFiles
    /\ i18n_file = [kind |-> "missing", doc |-> <<>>]
    /\ items = load_items(csv_file)
    /\ wf_items_loader = "None"
    /\ english_names = <<>>
    /\ i18n_data = <<>>
    /\ i18n_type = "dict"
    /\ loaded = FALSE
    /\ last = Idle
    /\ window = NoWindow
    /\ api \in {Client(mock, max_retries) : mock \in BOOLEAN, max_retries \in 0..retries}
    /\ patches = NoPatches

\* The operations that send requests.
InitRetry == InitApi(MaxRetries)

NextRetry ==
    \/ GetItemData
    \/ SearchItems
    \/ RequestWithRetry

SpecRetry == InitRetry /\ [][NextRetry]_vars

\* The operations on the cache, as time passes; the clients make one
\* attempt per request, or none.
InitCache == InitApi(1)

NextCache ==
    \/ GetItemData
    \/ SetCache
    \/ CleanExpiredCache
    \/ ClearCache
    \/ Tick

SpecCache == InitCache /\ [][NextCache]_vars

(***************************************************************************)
(* MainWindow: the local patch list, enable and disable.                   *)
(***************************************************************************)
TxtSuffix == <<46, 116, 120, 116>>                       \* ".txt"
TxtBkSuffix == <<46, 116, 120, 116, 46, 98, 107>>        \* ".txt.bk"

\* str.endswith.
EndsWith(s, t) ==
    Len(s) >= Len(t) /\ SubSeq(s, Len(s) - Len(t) + 1, Len(s)) = t

\* File names found in the patch directory when the window opens:
\* "a.txt", ".txt", "a.txt.bk", "b.txt.bk".
PatchNames ==
    { <<97>> \o TxtSuffix, TxtSuffix, <<97>> \o TxtBkSuffix, <<98>> \o TxtBkSuffix }

\* The directory: pairs <<name, file>>, at most one per name; a file keeps
\* its identity (the name it had at the start) through renames.
HasFile(files, name) == \E f \in files : f[1] = name
FileAt(files, name) == (CHOOSE f \in files : f[1] = name)[2]

\* PurePath.suffix: the part of the name from its last dot on, if that dot is
\* neither the first nor the last character.
suffix(name) ==
    LET dots == {i \in 1..Len(name) : name[i] = 46}
        last_dot == CHOOSE i \in dots : \A j \in dots : j <= i
    IN  IF dots = {} THEN <<>>
        ELSE IF 1 < last_dot /\ last_dot < Len(name)
        THEN SubSeq(name, last_dot, Len(name))
        ELSE <<>>

\* PurePath.with_suffix: the old suffix is replaced, a name without one gets
\* the new suffix appended.
with_suffix(name, new_suffix) ==
    IF suffix(name) = <<>> THEN name \o new_suffix
    ELSE SubSeq(name, 1, Len(name) - Len(suffix(name))) \o new_suffix

\* Order of two lower-cased names under Python's string comparison.
RECURSIVE LexLess(_, _)
LexLess(s, t) ==
    IF t = <<>> THEN FALSE
    ELSE IF s = <<>> THEN TRUE
    ELSE IF Head(s) # Head(t) THEN Head(s) < Head(t)
    ELSE LexLess(Tail(s), Tail(t))

\* all_files.sort(key=lambda x: x[0].name.lower()) on entries <<name, is_active>>.
RECURSIVE SortByName(_)
SortByName(entries) ==
    IF entries = {} THEN <<>>
    ELSE LET first == CHOOSE e \in entries :
                          \A o \in entries : ~LexLess(Lower(o[1]), Lower(e[1]))
         IN  <<first>> \o SortByName(entries \ {first})

\* MainWindow.refresh_local_patches_list: glob("*.txt") gives the active
\* entries, glob("*.txt.bk") the inactive ones.
refresh_local_patches_list(files) ==
    SortByName({<<f[1], TRUE>> : f \in {g \in files : EndsWith(g[1], TxtSuffix)}}
               \cup {<<f[1], FALSE>> : f \in {g \in files : EndsWith(g[1], TxtBkSuffix)}})

\* Path.rename: on POSIX an existing target is replaced, on Windows it is a
\* FileExistsError and nothing changes.
rename_fails(os, files, new_name) == os = "windows" /\ HasFile(files, new_name)

rename(files, name, new_name) ==
    {f \in files : f[1] \notin {name, new_name}} \cup {<<new_name, FileAt(files, name)>>}

\* The body shared by _on_enable_patch_clicked (enable = TRUE) and
\* _on_disable_patch_clicked: the state after a click with the answers
\* `confirm` and `overwrite` to the two questions.
patch_clicked(p, enable, confirm, overwrite) ==
    LET name == IF p.selected = 0 THEN <<>> ELSE p.list[p.selected][1]
        is_active == IF p.selected = 0 THEN FALSE ELSE p.list[p.selected][2]
        new_name == IF enable THEN with_suffix(name, <<>>)
                    ELSE with_suffix(name, TxtBkSuffix)
        click == [op |-> IF enable THEN "enable" ELSE "disable", name |-> name,
                  confirm |-> confirm, overwrite |-> overwrite,
                  new_name |-> <<>>, renamed |-> FALSE]
        stays == [p EXCEPT !.click = click]
    IN  IF p.selected = 0 THEN stays
        ELSE IF ~HasFile(p.files, name) THEN stays
        ELSE IF is_active = enable THEN stays
        ELSE IF ~EndsWith(name, IF enable THEN TxtBkSuffix ELSE TxtSuffix) THEN stays
        ELSE IF ~confirm THEN stays
        ELSE IF HasFile(p.files, new_name) /\ ~overwrite THEN stays
        ELSE IF rename_fails(p.os, p.files, new_name)
        THEN [p EXCEPT !.click = [click EXCEPT !.new_name = new_name]]
        ELSE LET files == rename(p.files, name, new_name)
             IN  [p EXCEPT !.files = files,
                           !.current_file_path = IF @ = name THEN new_name ELSE @,
                           !.list = refresh_local_patches_list(files),
                           !.selected = 0,
                           !.click = [click EXCEPT !.new_name = new_name,
                                                   !.renamed = TRUE]]

PatchFrame ==
    UNCHANGED <<window, api, csv_file, i18n_file, items, wf_items_loader,
                english_names, i18n_data, i18n_type, loaded, last>>

EnablePatch ==
    \E confirm \in BOOLEAN, overwrite \in BOOLEAN :
        /\ patches' = patch_clicked(patches, TRUE, confirm, overwrite)
        /\ PatchFrame

DisablePatch ==
    \E confirm \in BOOLEAN, overwrite \in BOOLEAN :
        /\ patches' = patch_clicked(patches, FALSE, confirm, overwrite)
        /\ PatchFrame

\* MainWindow._on_local_patch_selected: the user selects an entry of the
\* list and the file is loaded into the editor.
SelectPatch ==
    \E i \in 1..Len(patches.list) :
        /\ i # patches.selected
        /\ patches' = [patches EXCEPT
                           !.selected = i,
                           !.current_file_path =
                               IF HasFile(patches.files, patches.list[i][1])
                               THEN patches.list[i][1] ELSE @,
                           !.click = NoClick]
        /\ PatchFrame

\* The editor is cleared (new patch): no file is open.
ClearEditor ==
    /\ patches.current_file_path # <<>>
    /\ patches' = [patches EXCEPT !.current_file_path = <<>>, !.click = NoClick]
    /\ PatchFrame

InitPatches ==
    /\ csv_file = [exists |-> FALSE, rows |-> <<>>]
    /\ i18n_file = [kind |-> "missing", doc |-> <<>>]
    /\ items = load_items(csv_file)
    /\ wf_items_loader = "None"
    /\ english_names = <<>>
    /\ i18n_data = <<>>
    /\ i18n_type = "dict"
    /\ loaded = FALSE
    /\ last = Idle
    /\ window = NoWindow
    /\ api = NewClient
    /\ \E names \in SUBSET PatchNames, os \in {"posix", "windows"} :
           LET files == {<<n, n>> : n \in names}
           IN  patches = [NoPatches EXCEPT !.files = files, !.os = os,
                                           !.list = refresh_local_patches_list(files)]

NextPatches == EnablePatch \/ DisablePatch \/ SelectPatch \/ ClearEditor

SpecPatches == InitPatches /\ [][NextPatches]_vars

NextFiles == Next \/ ChangeCsvFile \/ ChangeI18nFile

SpecFiles == InitFiles /\ [][NextFiles]_vars

(***************************************************************************)
(* Vocabulary of the claims, stated over the files and the loaded tables   *)
(* without the search loops.                                               *)
(***************************************************************************)
\* Does `seq` list no identifier twice?
NoRepeatedId(seq) ==
    \A i, j \in 1..Len(seq) : seq[i][1] = seq[j][1] => i = j

\* The row of search_basic's contract: identifier or English name contains q.
BasicMatch(row, query) ==
    \/ Contains(Lower(query), Lower(row[1]))
    \/ Contains(Lower(query), Lower(row[2]))

\* The rows search_basic must return: the first `limit` matching rows.
BasicExpected(query, limit) ==
    LET M(row) == BasicMatch(row, query)
    IN  Take(SelectSeq(items, M), limit)

\* identifier has a translated "name" for language in the loaded table
HasTranslatedName(internal_name, language) ==
    /\ DictHas(i18n_data, internal_name)
    /\ DictHas(DictGet(i18n_data, internal_name), language)
    /\ DictHas(DictGet(DictGet(i18n_data, internal_name), language), "name")

TranslatedName(internal_name, language) ==
    DictGet(DictGet(DictGet(i18n_data, internal_name), language), "name")

\* target_hit: the translated name for `language` contains the query.
IsTargetId(internal_name, language, query) ==
    /\ HasTranslatedName(internal_name, language)
    /\ Contains(Lower(query), Lower(TranslatedName(internal_name, language)))

\* english_hit: the English name contains the query and it is no target_hit.
IsEnglishId(internal_name, language, query) ==
    /\ DictHas(english_names, internal_name)
    /\ Contains(Lower(query), Lower(DictGet(english_names, internal_name)))
    /\ ~IsTargetId(internal_name, language, query)

IsTargetPair(pair, language, query) ==
    /\ IsTargetId(pair[1], language, query)
    /\ pair[2] = TranslatedName(pair[1], language)

IsEnglishPair(pair, language, query) ==
    /\ IsEnglishId(pair[1], language, query)
    /\ pair[2] = DictGet(english_names, pair[1])

\* Identifiers of the name-table file and of the translation file.
FileNameIds ==
    IF ~csv_file.exists \/ csv_file.rows = <<>> THEN {}
    ELSE {Strip(csv_file.rows[i][1]) :
            i \in {k \in 2..Len(csv_file.rows) : RowOk(csv_file.rows[k])}}

FileI18nIds == {i18n_file.doc[i][1] : i \in 1..Len(i18n_file.doc)}

NameTableLoads == csv_file.exists /\ csv_file.rows # <<>>

TranslationFails == i18n_file.kind # "mapping"

IsSearchByLanguage == last.op \in {"search_by_language", "engine.search_by_language"}

(***************************************************************************)
(* C1: SearchEngine.search_by_language(query, "en", limit), limit >= 1,    *)
(* returns exactly the list of SearchEngine.search(query, limit).          *)
(***************************************************************************)
C1_EnglishIsBasic ==
    (last.op = "engine.search_by_language" /\ last.language = "en" /\ last.limit >= 1)
        => last.result = search(items, last.query, last.limit)

(***************************************************************************)
(* C2: the list returned by search_by_language (loader or engine, with     *)
(* the engine's fallback to search) contains no identifier twice.          *)
(***************************************************************************)
C2_NoDuplicateIds ==
    IsSearchByLanguage => NoRepeatedId(last.result)

(***************************************************************************)
(* C3: for a language other than "en" with both tables loaded, an ASCII    *)
(* query lists every english_hit before every target_hit, a non-ASCII      *)
(* query every target_hit before every english_hit, and each group is in   *)
(* the iteration order of its table.                                       *)
(***************************************************************************)
C3_AsciiOrdering ==
    (last.op = "search_by_language" /\ last.language # "en" /\ loaded)
        => \A i, j \in 1..Len(last.result) :
            i < j =>
              LET a == last.result[i][1]
                  b == last.result[j][1]
                  ta == IsTargetId(a, last.language, last.query)
                  tb == IsTargetId(b, last.language, last.query)
              IN  /\ IsAsciiQuery(last.query) => ~(ta /\ ~tb)
                  /\ ~IsAsciiQuery(last.query) => ~(~ta /\ tb)
                  /\ (ta /\ tb) => DictPos(i18n_data, a) < DictPos(i18n_data, b)
                  /\ (~ta /\ ~tb) => DictPos(english_names, a) < DictPos(english_names, b)

\* An ASCII query returned an english_hit followed by a target_hit.
C3_Witness ==
    /\ last.op = "search_by_language" /\ last.language # "en" /\ loaded
    /\ IsAsciiQuery(last.query)
    /\ Len(last.result) = 2
    /\ IsEnglishPair(last.result[1], last.language, last.query)
    /\ IsTargetPair(last.result[2], last.language, last.query)
    /\ DictPos(i18n_data, last.result[2][1]) = 1

(***************************************************************************)
(* C4 as claimed: for a language other than "en" and a query of length     *)
(* >= 2, every pair returned by search_by_language (loader or engine) is   *)
(* a target_hit or an english_hit.                                         *)
(***************************************************************************)
AllHits(result, language, query) ==
    \A i \in 1..Len(result) :
        \/ IsTargetPair(result[i], language, query)
        \/ IsEnglishPair(result[i], language, query)

SomeHit(language, query) ==
    \E id \in DictKeys(english_names) \cup DictKeys(i18n_data) :
        IsTargetId(id, language, query) \/ IsEnglishId(id, language, query)

C5_DegradedMode ==
    (NameTableLoads /\ TranslationFails)
        => /\ last.op \in {"get_supported_languages", "engine.get_supported_languages"}
                => last.result = {"en"}
           /\ (last.op = "engine.search_by_language" /\ last.language = "de")
                => last.result = search(items, last.query, last.limit)

\* A degraded "de" search answered from the name table although load failed.
C5_Witness ==
    /\ NameTableLoads /\ TranslationFails
    /\ last.op = "engine.search_by_language" /\ last.language = "de"
    /\ ~loaded /\ english_names # <<>>
    /\ Len(last.result) = 2

(***************************************************************************)
(* C6: after a successful load get_item_count() is the number of distinct  *)
(* identifiers of the name table and the translation table together.       *)
(***************************************************************************)
C6_UnionCount ==
    (loaded /\ last.op \in {"get_item_count", "engine.get_item_count"})
        => last.result = Cardinality(FileNameIds \cup FileI18nIds)

\* A = {p, q}, B = {q, r}: the count is 3.
C6_Witness ==
    /\ loaded /\ last.op = "engine.get_item_count"
    /\ Cardinality(FileNameIds) = 2 /\ Cardinality(FileI18nIds) = 2
    /\ Cardinality(FileNameIds \cap FileI18nIds) = 1
    /\ last.result = 3

(***************************************************************************)
(* C7: for an identifier with an English name in the name table and a      *)
(* language other than "en" in which it has no translated "name",          *)
(* get_item_name returns the English name.                                 *)
(***************************************************************************)
C7_EnglishFallback ==
    (/\ last.op = "get_item_name" /\ last.language # "en"
     /\ DictHas(english_names, last.internal_name)
     /\ ~HasTranslatedName(last.internal_name, last.language))
        => last.result = DictGet(english_names, last.internal_name)

(***************************************************************************)
(* C8 as claimed: get_item_name returns the empty string only if the       *)
(* identifier is in neither table.                                         *)
(***************************************************************************)
C8_EmptyOnlyIfUnknown ==
    (last.op = "get_item_name" /\ last.result = <<>>)
        => last.internal_name \notin DictKeys(english_names) \cup DictKeys(i18n_data)

(***************************************************************************)
(* C8 amended: get_item_name returns the empty string exactly when the     *)
(* data could not be loaded, or the language is not "en" and the           *)
(* identifier's translated "name" for it is itself empty, or there is no   *)
(* such translated name to use and the identifier has no name-table entry  *)
(* (it may still be in the translation table).                             *)
(***************************************************************************)
C8_EmptyExactly ==
    last.op = "get_item_name"
        => LET id == last.internal_name
               translated == last.language # "en" /\ HasTranslatedName(id, last.language)
           IN  last.result = <<>>
                 <=> \/ ~loaded
                     \/ translated /\ TranslatedName(id, last.language) = <<>>
                     \/ ~translated /\ ~DictHas(english_names, id)

\* An identifier known only to the translation table, asked for in English.
C8_Witness ==
    /\ last.op = "get_item_name" /\ loaded /\ last.language = "en"
    /\ DictHas(i18n_data, last.internal_name)
    /\ ~DictHas(english_names, last.internal_name)
    /\ last.result = <<>>

(***************************************************************************)
(* C9: for a query of length >= 2 and limit >= 1, SearchEngine.search      *)
(* returns exactly the first `limit` rows, in table order, whose           *)
(* lowercased identifier or English name contains the lowercased query.    *)
(***************************************************************************)
C9_FirstMatches ==
    (last.op = "search" /\ Len(last.query) >= 2 /\ last.limit >= 1)
        => last.result = BasicExpected(last.query, last.limit)

\* limit = 1 with two matching rows: the answer is the first of them.
C9_Witness ==
    /\ last.op = "search" /\ last.limit = 1
    /\ Len(items) = 2 /\ items[1] # items[2]
    /\ BasicMatch(items[1], last.query) /\ BasicMatch(items[2], last.query)
    /\ last.result = <<items[1]>>

(***************************************************************************)
(* C10: every search operation returns at most `limit` entries, for every  *)
(* limit >= 0.                                                             *)
(***************************************************************************)
C10_Capped ==
    last.op \in {"search", "engine.search_by_language", "search_by_language",
                 "search_all_languages", "get_suggestions"}
        => Len(last.result) <= last.limit

(***************************************************************************)
(* Short queries.                                                          *)
(***************************************************************************)
IsSearchOp ==
    last.op \in {"search", "engine.search_by_language", "search_by_language",
                 "search_all_languages"}

\* Some English name of the loaded name table contains the query.
SomeEnglishHit(query) ==
    \E i \in 1..Len(english_names) : Contains(Lower(query), Lower(english_names[i][2]))

\* C11: a query shorter than 2 characters (the empty one included) gets an
\* empty list from search, from both search_by_language and from
\* search_all_languages, for every language, limit and file content, and no
\* exception; a query of 2 characters is searched for: it finds a row or
\* name that contains it.
C11_ShortQueryEmpty ==
    /\ (IsSearchOp /\ Len(last.query) < 2)
           => (last.result = <<>> /\ last.raised = "none")
    /\ ( /\ last.op = "search" /\ Len(last.query) = 2
         /\ (\E i \in 1..Len(items) : BasicMatch(items[i], last.query)) )
           => last.result # <<>>
    /\ ( /\ last.op = "search_by_language" /\ last.language = "en"
         /\ Len(last.query) = 2 /\ loaded /\ SomeEnglishHit(last.query) )
           => last.result # <<>>

\* A one-character query that occurs in a loaded name, asked of the loader
\* over an array-shaped translation file in a translation language.
C11_Witness ==
    /\ last.op = "search_by_language" /\ last.language = "de"
    /\ last.query = <<97>>
    /\ loaded /\ i18n_type = "list"
    /\ SomeEnglishHit(last.query)
    /\ last.result = <<>>

(***************************************************************************)
(* Suggestions.                                                            *)
(***************************************************************************)
\* seq without the later occurrences of a value.
RECURSIVE Distinct(_, _)
Distinct(seq, acc) ==
    IF seq = <<>> THEN acc
    ELSE Distinct(Tail(seq), IF SeqHas(acc, Head(seq)) THEN acc ELSE Append(acc, Head(seq)))

\* The distinct English display names that start with prefix, in table order.
PrefixNames(prefix) ==
    LET M(row) == StartsWith(Lower(row[2]), Lower(prefix))
        rows == SelectSeq(items, M)
    IN  Distinct([i \in 1..Len(rows) |-> rows[i][2]], <<>>)

\* C12: get_suggestions(prefix, limit) returns the distinct English display
\* names that start with the prefix (case-insensitively), in first-occurrence
\* table order, capped at limit.
C12_PrefixSuggestions ==
    (last.op = "get_suggestions" /\ last.query # <<>>)
        => last.result = Take(PrefixNames(last.query), last.limit)

(***************************************************************************)
(* The all-language search.                                                *)
(***************************************************************************)
\* The English-name matches of the loaded name table, tagged "en".
AllEnglishMatches(query) ==
    LET M(pair) == Contains(Lower(query), Lower(pair[2]))
        hits == SelectSeq(english_names, M)
    IN  [i \in 1..Len(hits) |-> <<hits[i][1], hits[i][2], "en">>]

\* The first language of a translation entry whose name contains the query
\* (its position in the entry, 0 if there is none).
FirstMatchingLang(entry, query) ==
    LET hit(k) == /\ DictHas(entry[2][k][2], "name")
                  /\ Contains(Lower(query), Lower(DictGet(entry[2][k][2], "name")))
    IN  IF \E k \in 1..Len(entry[2]) : hit(k)
        THEN CHOOSE k \in 1..Len(entry[2]) : hit(k) /\ \A j \in 1..(k - 1) : ~hit(j)
        ELSE 0

\* The translation matches of the identifiers that are no English match, each
\* tagged with its first matching language, in table order.
AllTranslationMatches(query) ==
    LET M(entry) == /\ FirstMatchingLang(entry, query) # 0
                    /\ ~HasId(AllEnglishMatches(query), entry[1])
        hits == SelectSeq(i18n_data, M)
    IN  [i \in 1..Len(hits) |->
            LET lang == hits[i][2][FirstMatchingLang(hits[i], query)]
            IN  <<hits[i][1], DictGet(lang[2], "name"), lang[1]>>]

\* C13: search_all_languages(query, limit) lists the English-name matches
\* first, tagged "en", then the translation matches of the identifiers not
\* yet listed, each once with its first matching language, and stops at
\* limit results.
C13_AllLanguagesOrder ==
    (last.op = "search_all_languages" /\ loaded /\ Len(last.query) >= 2)
        => last.result = Take(AllEnglishMatches(last.query)
                                  \o AllTranslationMatches(last.query), last.limit)

(***************************************************************************)
(* Loading.                                                                *)
(***************************************************************************)
\* Every call, every return and every change of a file changes `progress`.
progress == <<last.op, csv_file, i18n_file, loaded>>

\* C14: once load_data has succeeded, every later call of it returns success
\* and no step changes english_names or i18n_data any more, whatever has
\* become of the two files in between.
C14_LoadIdempotent ==
    [][loaded => /\ loaded'
                 /\ english_names' = english_names
                 /\ i18n_data' = i18n_data
                 /\ i18n_type' = i18n_type
                 /\ (last'.op = "load_data" => last'.result = TRUE)]_progress

\* load_data has returned success although both files are gone and the
\* tables hold what an earlier load put there.
C14_Witness ==
    /\ last.op = "load_data" /\ last.result = TRUE
    /\ ~csv_file.exists /\ i18n_file.kind = "missing"
    /\ loaded /\ english_names # <<>> /\ i18n_data # <<>>

\* The English name the name-table file gives an identifier: that of its
\* last valid row.
FileEnglishName(internal_name) ==
    LET rows == csv_file.rows
        is(k) == RowOk(rows[k]) /\ Strip(rows[k][1]) = internal_name
        k == CHOOSE k \in 2..Len(rows) : is(k) /\ \A j \in (k + 1)..Len(rows) : ~is(j)
    IN  Strip(rows[k][2])

\* C15: when the translation source is missing or does not parse while the
\* name table is readable, the loader keeps serving the name table:
\* get_item_name(id, "en") returns the English name of id and
\* get_item_count() is the number of identifiers of the name table.
C15_IndependentSources ==
    (NameTableLoads /\ TranslationFails)
        => /\ ( /\ last.op = "get_item_name" /\ last.language = "en"
                /\ last.internal_name \in FileNameIds )
                => last.result = FileEnglishName(last.internal_name)
           /\ last.op = "get_item_count"
                => last.result = Cardinality(FileNameIds)

\* load_data can succeed on the two files: the name table has its header row
\* and the translation file holds a JSON document json.load and len accept.
FilesLoad == NameTableLoads /\ i18n_file.kind \in {"mapping", "array"}

IsLoaderSearch == last.op \in {"search_by_language", "search_all_languages"}

\* C16: a search triggers the load on first use (after it the tables are
\* loaded exactly if the files can be loaded); when that load fails, the
\* loader's search_by_language and search_all_languages return the empty
\* list for every query, language and limit, and no search operation of the
\* loader or of SearchEngine raises.
C16_FailedLoadEmpty ==
    /\ (IsLoaderSearch \/ (last.op = "engine.search_by_language" /\ Len(last.query) >= 2))
           => (loaded <=> FilesLoad)
    /\ (IsLoaderSearch /\ ~FilesLoad) => last.result = <<>>
    /\ ((IsSearchOp \/ last.op = "get_suggestions") /\ ~FilesLoad)
           => last.raised = "none"

\* The load failed on the translation file, the name table read before it
\* holds a name that contains the query, and the all-language search with
\* room for two results returned nothing.
C16_Witness ==
    /\ last.op = "search_all_languages" /\ last.limit = 2
    /\ ~FilesLoad /\ ~loaded
    /\ SomeEnglishHit(last.query) /\ Len(last.query) >= 2
    /\ last.result = <<>> /\ last.raised = "none"

(***************************************************************************)
(* Translation documents of the wrong shape.                               *)
(***************************************************************************)
\* C17: whatever JSON document the translation file holds, get_item_name,
\* get_item_names, search_by_language, search_all_languages,
\* get_supported_languages and get_item_count of WFItemsLoader return a
\* value; none of them raises.
C17_NoQueryRaises ==
    last.op \in {"get_item_name", "get_item_names", "search_by_language",
                 "search_all_languages", "get_supported_languages", "get_item_count"}
        => last.raised = "none"

\* C18: a translation document whose top level is not a mapping is never
\* accepted: load_data returns False and the tables stay unloaded.
C18_TopLevelRejected ==
    i18n_file.kind # "mapping"
        => /\ ~loaded
           /\ last.op = "load_data" => last.result = FALSE

(***************************************************************************)
(* Repeated identifiers in the name-table file.                            *)
(***************************************************************************)
\* The pair shows the English name the file's last row gives its identifier.
ShowsLastName(pair) ==
    pair[1] \in FileNameIds => pair[2] = FileEnglishName(pair[1])

\* C19: an identifier that several rows of the name-table file carry is in
\* the loaded name table once, with the English name of its last row, and
\* every lookup by identifier (get_item_name(id, "en"),
\* get_by_internal_name(id)) and every English search result for it shows
\* that name.
C19_LastRowWins ==
    /\ NoRepeatedId(english_names)
    /\ \A i \in 1..Len(english_names) : ShowsLastName(english_names[i])
    /\ (last.op = "get_item_name" /\ last.language = "en" /\ loaded)
           => ShowsLastName(<<last.internal_name, last.result>>)
    /\ last.op = "get_by_internal_name"
           => ShowsLastName(<<last.internal_name, last.result>>)
    /\ (last.op = "search" \/ (IsSearchByLanguage /\ last.language = "en"))
           => \A i \in 1..Len(last.result) : ShowsLastName(last.result[i])

(***************************************************************************)
(* Malformed rows of the name-table file.                                  *)
(***************************************************************************)
HasNonSpace(s) == \E i \in 1..Len(s) : ~IsSpace(s[i])

\* The row has two populated fields.
Populated(row) == Len(row) >= 2 /\ HasNonSpace(row[1]) /\ HasNonSpace(row[2])

\* The populated data rows of the file, trimmed, in file order.
PopulatedRows ==
    IF ~NameTableLoads THEN <<>>
    ELSE LET data == SelectSeq(Tail(csv_file.rows), Populated)
         IN  [i \in 1..Len(data) |-> <<Strip(data[i][1]), Strip(data[i][2])>>]

\* The identifiers of the populated rows, each once, in file order.
PopulatedIds == Distinct([i \in 1..Len(PopulatedRows) |-> PopulatedRows[i][1]], <<>>)

\* C20: whatever malformed rows the name-table file holds, a file with a
\* header row loads (load_items returns True, load_data too when the
\* translation file loads) and the loaded table is exactly the populated
\* data rows, trimmed, in file order (once per identifier in the loader's
\* table); the header row is not an item; a file without header fails.
C20_MalformedRowsSkipped ==
    /\ items = PopulatedRows
    /\ last.op = "load_items" => last.result = NameTableLoads
    /\ last.op = "load_data"
           => /\ last.result = (NameTableLoads /\ i18n_file.kind = "mapping")
              /\ english_names =
                    [i \in 1..Len(PopulatedIds) |->
                        <<PopulatedIds[i], FileEnglishName(PopulatedIds[i])>>]

\* A file whose rows are a blank-name row and a padded three-field row has
\* loaded with that one row, trimmed.
C20_Witness ==
    /\ last.op = "load_data" /\ last.result = TRUE
    /\ Len(csv_file.rows) = 3
    /\ ~Populated(csv_file.rows[2]) /\ Len(csv_file.rows[2]) = 2
    /\ Len(csv_file.rows[3]) = 3
    /\ english_names = << <<  <<120, 50>>, <<65, 98>> >> >>
    /\ items = english_names

(***************************************************************************)
(* Names of one identifier in all languages.                               *)
(***************************************************************************)
\* A dict as the set of its <<key, value>> pairs.
DictPairs(d) == {d[i] : i \in 1..Len(d)}

\* The English entry of the name table under the key "en".
EnglishEntry(internal_name) ==
    IF DictHas(english_names, internal_name)
    THEN {<<"en", DictGet(english_names, internal_name)>>}
    ELSE {}

\* Every language of the identifier's translation entry that has a "name",
\* with that name.
TranslationEntries(internal_name) ==
    IF DictHas(i18n_data, internal_name)
    THEN LET langs == DictGet(i18n_data, internal_name)
         IN  {<<langs[k][1], DictGet(langs[k][2], "name")>> :
                 k \in {j \in 1..Len(langs) : DictHas(langs[j][2], "name")}}
    ELSE {}

\* C21: after a successful load get_item_names(identifier) is exactly the
\* English name-table entry under "en" together with, for every language of
\* the identifier's translation entry that has a "name", that language with
\* its name; an unknown identifier gives the empty mapping.
C21_NamesUnion ==
    (last.op = "get_item_names" /\ loaded)
        => /\ DictPairs(last.result)
                = EnglishEntry(last.internal_name) \cup TranslationEntries(last.internal_name)
           /\ NoRepeatedId(last.result)

\* C25: after a successful load every entry of get_item_names(identifier),
\* language L with a name, is what get_item_name(identifier, L) returns; the
\* "en" entry is the name-table entry, also when the translation table has
\* an "en" record for the identifier.
C25_NamesAgree ==
    (last.op = "get_item_names" /\ loaded)
        => \A i \in 1..Len(last.result) :
              last.result[i][2]
                  = item_name_loaded(english_names, i18n_data,
                                     last.internal_name, last.result[i][1])

(***************************************************************************)
(* Supported languages.                                                    *)
(***************************************************************************)
\* The language codes that occur as keys in the translation file's entries.
FileLanguages ==
    UNION {{i18n_file.doc[i][2][k][1] : k \in 1..Len(i18n_file.doc[i][2])} :
              i \in 1..Len(i18n_file.doc)}

\* C22: after a successful load get_supported_languages() (of the loader and
\* of SearchEngine) is {"en"} united with every language code that is a key
\* of some identifier's translation entry; "en" is in it for every table
\* content, the empty translation table included.
C22_SupportedLanguages ==
    (loaded /\ last.op \in {"get_supported_languages", "engine.get_supported_languages"})
        => /\ last.result = {"en"} \cup FileLanguages
           /\ "en" \in last.result

\* The translation table is empty and the answer is {"en"}.
C22_Witness ==
    /\ loaded /\ last.op = "get_supported_languages"
    /\ i18n_file.doc = <<>> /\ last.result = {"en"}

(***************************************************************************)
(* Queries are reads.                                                      *)
(***************************************************************************)
QueryOps ==
    {"get_item_name", "get_item_names", "search_by_language", "search_all_languages",
     "get_supported_languages", "get_item_count", "search", "get_suggestions",
     "get_all_items", "get_all_items.mutated", "engine.search_by_language",
     "engine.get_supported_languages", "engine.get_item_count", "get_by_internal_name"}

\* C23: once load_data has succeeded no query operation changes
\* english_names or i18n_data, no query operation changes SearchEngine.items,
\* and changing the list get_all_items returned leaves SearchEngine.items
\* as it was.
C23_QueriesAreReads ==
    [][last'.op \in QueryOps
          => /\ items' = items
             /\ loaded => /\ english_names' = english_names
                          /\ i18n_data' = i18n_data
                          /\ loaded']_progress

\* The caller has changed the list it got while the tables are loaded, and
\* SearchEngine.items still holds the rows of the file.
C23_Witness ==
    /\ last.op = "get_all_items.mutated" /\ last.result = <<>>
    /\ loaded /\ Len(items) = 2 /\ items = load_items(csv_file)

(***************************************************************************)
(* Loading again after a failed load.                                      *)
(***************************************************************************)
LoaderOps ==
    {"load_data", "get_item_name", "get_item_names", "search_by_language",
     "search_all_languages", "get_supported_languages", "get_item_count"}

\* The name table the file on disk holds: its populated rows, once per
\* identifier with the last name, in file order.
FileNameTable ==
    [i \in 1..Len(PopulatedIds) |-> <<PopulatedIds[i], FileEnglishName(PopulatedIds[i])>>]

\* C26: while load_data has not succeeded every operation of the loader
\* attempts the full load again, so it loads as soon as both files are
\* readable; and after the attempt that succeeds english_names holds
\* exactly the rows of the name-table file that attempt read.
C26_FailedLoadNotLatched ==
    [][/\ (~loaded /\ last'.op \in LoaderOps) => (loaded' <=> FilesLoad)
       /\ (~loaded /\ loaded')
              => DictPairs(english_names') = DictPairs(FileNameTable)]_progress

(***************************************************************************)
(* The configured minimum query length.                                    *)
(***************************************************************************)
\* C24: for every configured search.min_chars m, a search from the window
\* with a query shorter than m shows nothing, and a query of length >= m is
\* searched: it shows the rows that contain it.
C24_ConfiguredMinimum ==
    last.op = "perform_search"
        => /\ Len(last.query) < last.min_chars => last.result = <<>>
           /\ ( /\ Len(last.query) >= last.min_chars
                /\ (\E i \in 1..Len(items) : BasicMatch(items[i], last.query)) )
                  => last.result # <<>>

(***************************************************************************)
(* The language shown and the language used.                               *)
(***************************************************************************)
\* C27: once the window is initialised, and after every language selection,
\* current_language is one of the codes the language combo offers and it
\* is the code of the entry the combo shows.
C27_LanguageOffered ==
    ~window.initializing
        => /\ findData(window.codes, window.current_language) >= 0
           /\ window.index = findData(window.codes, window.current_language)

(***************************************************************************)
(* Requests with retry.                                                    *)
(***************************************************************************)
\* The last call sent requests through _request_with_retry.
Requesting ==
    \/ api.call.op \in {"request_with_retry", "search_items"}
    \/ api.call.op = "get_item_data" /\ ~api.mock /\ api.call.source # "cache"

\* The last attempt made was answered without a RequestException.
Succeeded ==
    api.call.attempts >= 1 /\ api.call.outcomes[api.call.attempts] # "error"

\* C28: for every max_retries >= 0, _request_with_retry makes at most
\* max_retries attempts, stops at the first successful one and returns its
\* response, waits 2^attempt seconds between consecutive attempts and not
\* after the last, and raises the RequestException of the last attempt when
\* none succeeds, so that get_item_data and search_items then return None
\* and [] instead of raising.
C28_RetryContract ==
    Requesting =>
        /\ api.call.attempts <= api.max_retries
        /\ \A i \in 1..(api.call.attempts - 1) : api.call.outcomes[i] = "error"
        /\ Len(api.call.waits) = (IF api.call.attempts = 0 THEN 0
                                  ELSE api.call.attempts - 1)
        /\ \A i \in 1..Len(api.call.waits) : api.call.waits[i] = Pow2(i - 1)
        /\ Succeeded => api.call.raised = "none"
        /\ (~Succeeded /\ api.call.op = "request_with_retry")
               => /\ api.call.raised = "RequestException"
                  /\ api.call.exception_of = api.call.attempts
        /\ (~Succeeded /\ api.call.op = "get_item_data")
               => api.call.raised = "none" /\ api.call.result = None
        /\ (~Succeeded /\ api.call.op = "search_items")
               => api.call.raised = "none" /\ api.call.result = Some(<<>>)

(***************************************************************************)
(* The response cache.                                                     *)
(***************************************************************************)
cache_state ==
    <<api.cache, api.cache_ttl, api.now, api.call.op, api.call.key,
      api.call.use_cache, api.call.source>>

\* C29: after every get_item_data, _set_cache, _clean_expired_cache and
\* clear_cache call cache and cache_ttl have the same keys; get_item_data
\* with use_cache=True returns the cached value only if the time of the
\* call is strictly before the entry's expiry; get_item_data with
\* use_cache=False neither returns from the cache nor changes it.
C29_CacheContract ==
    [][ /\ DictKeys(api'.cache) = DictKeys(api'.cache_ttl)
        /\ (api'.call.op = "get_item_data" /\ api'.call.source = "cache")
               => /\ api'.call.use_cache
                  /\ DictHas(api.cache, api'.call.key)
                  /\ DictHas(api.cache_ttl, api'.call.key)
                  /\ api.now < DictGet(api.cache_ttl, api'.call.key)
                  /\ api'.call.result = Some(DictGet(api.cache, api'.call.key))
        /\ (api'.call.op = "get_item_data" /\ ~api'.call.use_cache)
               => /\ api'.call.source # "cache"
                  /\ api'.cache = api.cache
                  /\ api'.cache_ttl = api.cache_ttl
      ]_cache_state

\* get_item_data has answered from the cache in the last second of an
\* entry's life, next to an entry that has already expired.
C29_Witness ==
    /\ api.call.op = "get_item_data"
    /\ api.call.use_cache
    /\ api.call.source = "cache"
    /\ DictGet(api.cache_ttl, api.call.key) = api.now + 1
    /\ \E i \in 1..Len(api.cache_ttl) : api.cache_ttl[i][2] <= api.now

(***************************************************************************)
(* Enabling and disabling patches.                                         *)
(***************************************************************************)
BkSuffix == <<46, 98, 107>>                              \* ".bk"

\* The entry the click was made on: its name, and the name the claim gives
\* the file afterwards (X.txt.bk for X.txt, X.txt for X.txt.bk).
ClickedName == patches.list[patches.selected][1]
ClickedActive == patches.list[patches.selected][2]
OtherName ==
    IF ClickedActive THEN ClickedName \o BkSuffix
    ELSE SubSeq(ClickedName, 1, Len(ClickedName) - Len(BkSuffix))

\* The step is a click on enable or disable with an existing file selected.
Clicked ==
    /\ patches'.click.op \in {"enable", "disable"}
    /\ patches.selected > 0
    /\ HasFile(patches.files, ClickedName)

\* The user answered yes to every question asked.
Confirmed == patches'.click.confirm /\ patches'.click.overwrite

\* The user answered no to the confirmation or to the overwrite question.
Declined ==
    \/ ~patches'.click.confirm
    \/ ~patches'.click.overwrite /\ HasFile(patches.files, OtherName)

\* What a click on enable or disable does to the files and to
\* current_file_path, as the renames X.txt <-> X.txt.bk.
InverseRenameStep ==
        Clicked =>
          /\ (Confirmed /\ ClickedActive = (patches'.click.op = "disable"))
                 => /\ ~HasFile(patches'.files, ClickedName)
                    /\ HasFile(patches'.files, OtherName)
                    /\ FileAt(patches'.files, OtherName) = FileAt(patches.files, ClickedName)
                    /\ patches.current_file_path = ClickedName
                           => patches'.current_file_path = OtherName
          /\ (Declined \/ ClickedActive = (patches'.click.op = "enable"))
                 => /\ patches'.files = patches.files
                    /\ patches'.current_file_path = patches.current_file_path

\* C30: a confirmed disable of an active X.txt leaves the file only under
\* X.txt.bk and a confirmed enable of X.txt.bk leaves it only under X.txt;
\* current_file_path follows the renamed file; a declined confirmation, or
\* a file already in the requested state, changes no file and no
\* current_file_path.
C30_InverseRenames == [][InverseRenameStep]_patches

=============================================================================
